---- MODULE Spec2Model ----
(***************************************************************************)
(* State-machine model of the useDraggable hook (src/src/index.tsx).       *)
(*                                                                         *)
(* The hook keeps a mutable record (internalState), closure variables for  *)
(* the cached geometry, the captured styles and the timer handles, and it  *)
(* reads and writes a DOM container and its children.  Every handler and   *)
(* every timer callback is one atomic action (JavaScript runs each         *)
(* callback to completion).  Numbers that the code keeps as doubles are    *)
(* exact rationals <<numerator, denominator>> here.                        *)
(***************************************************************************)
EXTENDS Integers, Sequences, FiniteSets, TLC

(***************************************************************************)
(* Bounds of the model.                                                    *)
(***************************************************************************)
MaxCoord == 2            \* pointer coordinates are 0..MaxCoord on both axes
MaxExtent == 3           \* scrollWidth - clientWidth is 0 (no overflow) or MaxExtent
NumChildren == 2         \* child elements of the container
MaxMomentumStarts == 2   \* confirmed releases (calls of callbackMomentum) per behaviour
MaxButtons == 4          \* MouseEvent.buttons masks are 0..MaxButtons

Coords == 0 .. MaxCoord
Extents == {0, MaxExtent}
Children == 1 .. NumChildren
ButtonsCodes == 0 .. MaxButtons

(***************************************************************************)
(* Exact rational arithmetic for the code's floating-point quantities.     *)
(***************************************************************************)
Abs(n) == IF n < 0 THEN -n ELSE n

Sign(n) == IF n < 0 THEN -1 ELSE IF n > 0 THEN 1 ELSE 0

RECURSIVE GCD(_, _)
GCD(a, b) == IF b = 0 THEN a ELSE GCD(b, a % b)

Rat(n, d) == LET g == GCD(Abs(n), d) IN <<n \div g, d \div g>>

RInt(n) == <<n, 1>>

RAdd(a, b) == Rat(a[1] * b[2] + b[1] * a[2], a[2] * b[2])

RMul(a, b) == Rat(a[1] * b[1], a[2] * b[2])

RDiv(a, b) == Rat(a[1] * b[2] * Sign(b[1]), a[2] * Abs(b[1]))

RAbs(a) == <<Abs(a[1]), a[2]>>

RLt(a, b) == a[1] * b[2] < b[1] * a[2]

RLe(a, b) == a[1] * b[2] <= b[1] * a[2]

RGe(a, b) == RLe(b, a)

(***************************************************************************)
(* Options and constants of the hook.  decayRate and safeDisplacement are  *)
(* options of the caller (lines 21-22); the values here are ones a caller  *)
(* can pass, chosen so that pointer coordinates 0..MaxCoord give releases  *)
(* below, at and above safeDisplacement and a momentum that decays for     *)
(* more than one tick.  timing (line 51) and                               *)
(* minimumSpeedToTriggerMomentum (line 173) are the code's values.         *)
(* clientWidth and clientHeight (line 113) are the container's visible     *)
(* size.                                                                   *)
(***************************************************************************)
decayRate == <<1, 2>>

safeDisplacement == 1

timing == RMul(<<1, 60>>, RInt(1000))

minimumSpeedToTriggerMomentum == <<1, 20>>

clientWidth == 100

clientHeight == 100

VARIABLES
    applyRubberBandEffect,           \* option
    activeMouseButton,               \* option
    isMounted,                       \* option, as last rendered
    internalState,                   \* the useRef record
    isScrollableAlongX,
    isScrollableAlongY,
    maxHorizontalScroll,
    maxVerticalScroll,
    cursorStyleOfWrapperElement,
    cursorStyleOfChildElements,
    transformStyleOfChildElements,
    transitionStyleOfChildElements,
    rubberBandAnimationTimer,        \* handle of the last setTimeout, 0 = undefined
    keepMovingX,                     \* handle of the last X setInterval, 0 = undefined
    keepMovingY,                     \* handle of the last Y setInterval, 0 = undefined
    element,                         \* the container: scroll offsets, extents, overflow, cursor
    children,                        \* per child: cursor, transform, transition, click listener
    timers,                          \* live timers of the platform: [id, cb]
    timerSeq,                        \* last timer id handed out
    listening                        \* window listeners of the effect are registered

options == <<applyRubberBandEffect, activeMouseButton, isMounted>>

geometry == <<isScrollableAlongX, isScrollableAlongY, maxHorizontalScroll, maxVerticalScroll>>

snapshot == <<cursorStyleOfWrapperElement, cursorStyleOfChildElements,
              transformStyleOfChildElements, transitionStyleOfChildElements>>

handles == <<rubberBandAnimationTimer, keepMovingX, keepMovingY>>

vars == <<options, internalState, geometry, snapshot, handles,
          element, children, timers, timerSeq, listening>>

(***************************************************************************)
(* Style values.  A transform is <<function, x, y>>; the displacements of  *)
(* translate3d are the exact reals 0.3 * size * sign(d) *                  *)
(* log10(1 + 0.5 * |d| / size), kept as <<3 * size * sign(d),              *)
(* 2 * size + |d|, 2 * size>>, that is (c / 10) * log10(a / b).            *)
(***************************************************************************)
ZeroDisplacement == <<0, 1, 1>>

Displacement(size, d) ==
    IF d = 0 THEN ZeroDisplacement
    ELSE <<3 * size * Sign(d), 2 * size + Abs(d), 2 * size>>

Translate3d(x, y) == <<"translate3d", x, y>>

TransformNone == <<"none", ZeroDisplacement, ZeroDisplacement>>

TransformEmpty == <<"", ZeroDisplacement, ZeroDisplacement>>

TransformMatrix == <<"matrix(1, 0, 0, 1, 4, 0)", ZeroDisplacement, ZeroDisplacement>>

\* Lines 75-85: a computed "none" is captured as the empty string.
CaptureTransform(computed) == IF computed = TransformNone THEN TransformEmpty ELSE computed

CaptureTransition(computed) == IF computed = "none" THEN "" ELSE computed

\* Writing an inline style: the empty string removes the inline value, and
\* the computed value falls back to "none".
WriteTransform(value) == IF value = TransformEmpty THEN TransformNone ELSE value

WriteTransition(value) == IF value = "" THEN "none" ELSE value

\* Writing element.scrollLeft / scrollTop: the platform clamps the offset to
\* the scrollable range.
SetScroll(offset, extent) ==
    IF RLt(offset, RInt(0)) THEN RInt(0)
    ELSE IF RLt(RInt(extent), offset) THEN RInt(extent)
    ELSE offset

(***************************************************************************)
(* The state after the first render with the container mounted: the        *)
(* useLayoutEffect of lines 53-89 has cached the geometry and captured the *)
(* styles, the useEffect of lines 359-364 has registered the listeners.    *)
(* The model covers the hook while ref.current is the container, so the    *)
(* `if (!ref.current) return` guards never take their early return.        *)
(***************************************************************************)
InitialChild(i) ==
    [cursor |-> IF i % 2 = 1 THEN "pointer" ELSE "auto",
     transform |-> IF i % 2 = 1 THEN TransformNone ELSE TransformMatrix,
     transition |-> IF i % 2 = 1 THEN "none" ELSE "opacity 1s ease 0s",
     preventClick |-> FALSE]

InitWith(rubberBand, mouseButtons, overflows, extents) ==
    /\ applyRubberBandEffect \in rubberBand
    /\ activeMouseButton \in mouseButtons
    /\ isMounted = TRUE
    /\ internalState =
         [isMouseDown |-> FALSE, isDraggingX |-> FALSE, isDraggingY |-> FALSE,
          initialMouseX |-> 0, initialMouseY |-> 0,
          lastMouseX |-> 0, lastMouseY |-> 0,
          scrollSpeedX |-> RInt(0), scrollSpeedY |-> RInt(0),
          lastScrollX |-> RInt(0), lastScrollY |-> RInt(0)]
    /\ \E ox \in overflows, oy \in overflows, w \in extents, h \in extents :
         element = [scrollLeft |-> RInt(0), scrollTop |-> RInt(0),
                    extentX |-> w, extentY |-> h,
                    overflowX |-> ox, overflowY |-> oy, cursor |-> "default"]
    /\ children = [i \in Children |-> InitialChild(i)]
    /\ isScrollableAlongX = (element.overflowX = "scroll")
    /\ isScrollableAlongY = (element.overflowY = "scroll")
    /\ maxHorizontalScroll = element.extentX
    /\ maxVerticalScroll = element.extentY
    /\ cursorStyleOfWrapperElement = element.cursor
    /\ cursorStyleOfChildElements = [i \in Children |-> children[i].cursor]
    /\ transformStyleOfChildElements =
         [i \in Children |-> CaptureTransform(children[i].transform)]
    /\ transitionStyleOfChildElements =
         [i \in Children |-> CaptureTransition(children[i].transition)]
    /\ rubberBandAnimationTimer = 0
    /\ keepMovingX = 0
    /\ keepMovingY = 0
    /\ timers = {}
    /\ timerSeq = 0
    /\ listening = TRUE

(***************************************************************************)
(* runScroll, lines 91-105: the new internalState and container.           *)
(***************************************************************************)
runScrollUnscaled(s, el) ==
    LET offsetX == RAdd(el.scrollLeft, s.scrollSpeedX)
        offsetY == RAdd(el.scrollTop, s.scrollSpeedY)
    IN [s |-> [s EXCEPT !.lastScrollX = offsetX, !.lastScrollY = offsetY],
        el |-> [el EXCEPT !.scrollLeft = SetScroll(offsetX, el.extentX),
                          !.scrollTop = SetScroll(offsetY, el.extentY)]]

runScroll(s, el) ==
    LET dx == RMul(s.scrollSpeedX, timing)
        dy == RMul(s.scrollSpeedY, timing)
        offsetX == RAdd(el.scrollLeft, dx)
        offsetY == RAdd(el.scrollTop, dy)
    IN [s |-> [s EXCEPT !.lastScrollX = offsetX, !.lastScrollY = offsetY],
        el |-> [el EXCEPT !.scrollLeft = SetScroll(offsetX, el.extentX),
                          !.scrollTop = SetScroll(offsetY, el.extentY)]]

(***************************************************************************)
(* rubberBandCallback, lines 107-151: the children after the write.        *)
(***************************************************************************)
rubberBandCallback(ch, x, y) ==
    LET dx == x - internalState.initialMouseX
        dy == y - internalState.initialMouseY
        displacementX == IF isScrollableAlongX
                         THEN Displacement(clientWidth, dx) ELSE ZeroDisplacement
        displacementY == IF isScrollableAlongY
                         THEN Displacement(clientHeight, dy) ELSE ZeroDisplacement
    IN [i \in Children |->
          [ch[i] EXCEPT !.transform = WriteTransform(Translate3d(displacementX, displacementY)),
                        !.transition = WriteTransition("transform 0ms")]]

(***************************************************************************)
(* recoverChildStyle, lines 153-164, run by the 250 ms timeout `id`.       *)
(***************************************************************************)
recoverChildStyle(id) ==
    /\ [id |-> id, cb |-> "recoverChildStyle"] \in timers
    /\ timers' = timers \ {[id |-> id, cb |-> "recoverChildStyle"]}
    /\ children' =
         [i \in Children |->
            [children[i] EXCEPT
               !.transform = WriteTransform(transformStyleOfChildElements[i]),
               !.transition = WriteTransition(transitionStyleOfChildElements[i])]]
    /\ UNCHANGED <<options, internalState, geometry, snapshot, handles, element,
                   timerSeq, listening>>

(***************************************************************************)
(* getIsMousePressActive, lines 246-252.                                   *)
(***************************************************************************)
getIsMousePressActiveByButtonNumber(buttonsCode) ==
    \/ (activeMouseButton = "Left" /\ buttonsCode = 1)
    \/ (activeMouseButton = "Middle" /\ buttonsCode = 2)
    \/ (activeMouseButton = "Right" /\ buttonsCode = 4)

getIsMousePressActive(buttonsCode) ==
    \/ (activeMouseButton = "Left" /\ buttonsCode = 1)
    \/ (activeMouseButton = "Middle" /\ buttonsCode = 4)
    \/ (activeMouseButton = "Right" /\ buttonsCode = 2)

(***************************************************************************)
(* onMouseDown, lines 254-265.  The handler is attached to the container   *)
(* by the host, whatever isMounted is; an ignored press changes nothing.   *)
(***************************************************************************)
onMouseDown(buttons, x, y) ==
    IF ~getIsMousePressActive(buttons)
    THEN UNCHANGED vars
    ELSE /\ internalState' = [internalState EXCEPT !.isMouseDown = TRUE,
                                                   !.lastMouseX = x, !.lastMouseY = y,
                                                   !.initialMouseX = x, !.initialMouseY = y]
         /\ UNCHANGED <<options, geometry, snapshot, handles, element, children,
                        timers, timerSeq, listening>>

(***************************************************************************)
(* callbackMomentum, lines 170-239, called by onMouseUp with the state `s` *)
(* and the children `ch` that onMouseUp has produced so far.  setInterval  *)
(* and setTimeout hand out fresh ids; the handles are overwritten and the  *)
(* timers they named before are not cleared.                               *)
(***************************************************************************)
TimersPerMomentum == IF applyRubberBandEffect THEN 3 ELSE 2

callbackMomentumHorizontalOnly(s, ch) ==
    /\ keepMovingX' = timerSeq + 1
    /\ internalState' = [s EXCEPT !.isDraggingX = FALSE, !.isDraggingY = FALSE]
    /\ children' = ch
    /\ timers' = timers \cup {[id |-> timerSeq + 1, cb |-> "keepMovingX"]}
    /\ timerSeq' = timerSeq + 2
    /\ UNCHANGED <<keepMovingY, rubberBandAnimationTimer>>

callbackMomentum(s, ch) ==
    LET idX == timerSeq + 1
        idY == timerSeq + 2
        idT == timerSeq + 3
        intervals == {[id |-> idX, cb |-> "keepMovingX"], [id |-> idY, cb |-> "keepMovingY"]}
    IN /\ keepMovingX' = idX
       /\ keepMovingY' = idY
       /\ internalState' = [s EXCEPT !.isDraggingX = FALSE, !.isDraggingY = FALSE]
       /\ IF applyRubberBandEffect
          THEN /\ children' =
                    [i \in Children |->
                       [ch[i] EXCEPT
                          !.transform = WriteTransform(Translate3d(ZeroDisplacement, ZeroDisplacement)),
                          !.transition = WriteTransition("transform 250ms")]]
               /\ rubberBandAnimationTimer' = idT
               /\ timers' = timers \cup intervals \cup {[id |-> idT, cb |-> "recoverChildStyle"]}
               /\ timerSeq' = idT
          ELSE /\ children' = ch
               /\ UNCHANGED rubberBandAnimationTimer
               /\ timers' = timers \cup intervals
               /\ timerSeq' = idY

(***************************************************************************)
(* onMouseUp, lines 267-307 (window listener).                             *)
(***************************************************************************)
isMotionIntentionalInclusive(dx, dy) ==
    Abs(dx) >= safeDisplacement \/ Abs(dy) >= safeDisplacement

isMotionIntentional(dx, dy) == Abs(dx) > safeDisplacement \/ Abs(dy) > safeDisplacement

isDraggingConfirmed(x, y) ==
    LET isDragging == internalState.isDraggingX \/ internalState.isDraggingY
        dx == internalState.initialMouseX - x
        dy == internalState.initialMouseY - y
    IN isDragging /\ isMotionIntentional(dx, dy)

restoreCursorFirstOnly(ch) ==
    [i \in Children |-> [ch[i] EXCEPT !.cursor = cursorStyleOfChildElements[1]]]

\* Lines 297-302: the children with their captured cursors written back.
restoreCursor(ch) ==
    [i \in Children |-> [ch[i] EXCEPT !.cursor = cursorStyleOfChildElements[i]]]

onMouseUp(x, y) ==
    /\ listening
    /\ LET listened == [i \in Children |->
                          [children[i] EXCEPT !.preventClick = isDraggingConfirmed(x, y)]]
           s == [internalState EXCEPT !.isMouseDown = FALSE,
                                      !.lastMouseX = 0, !.lastMouseY = 0]
           ch == restoreCursor(listened)
       IN /\ element' = [element EXCEPT !.cursor = cursorStyleOfWrapperElement]
          /\ IF isDraggingConfirmed(x, y)
             THEN callbackMomentum(s, ch)
             ELSE /\ internalState' = s
                  /\ children' = ch
                  /\ UNCHANGED <<handles, timers, timerSeq>>
    /\ UNCHANGED <<options, geometry, snapshot, listening>>

(***************************************************************************)
(* onMouseMove, lines 309-350 (window listener).                           *)
(***************************************************************************)
isAtAnEdge ==
    LET isAtLeft == RLe(element.scrollLeft, RInt(0)) /\ isScrollableAlongX
        isAtRight == RGe(element.scrollLeft, RInt(maxHorizontalScroll)) /\ isScrollableAlongX
        isAtTop == RLe(element.scrollTop, RInt(0)) /\ isScrollableAlongY
        isAtBottom == RGe(element.scrollTop, RInt(maxVerticalScroll)) /\ isScrollableAlongY
    IN isAtLeft \/ isAtRight \/ isAtTop \/ isAtBottom

onMouseMove(x, y) ==
    /\ listening
    /\ internalState.isMouseDown
    /\ LET dx == internalState.lastMouseX - x
           dy == internalState.lastMouseY - y
           s == [internalState EXCEPT
                   !.lastMouseX = x, !.lastMouseY = y,
                   !.scrollSpeedX = RDiv(RInt(dx), timing),
                   !.scrollSpeedY = RDiv(RInt(dy), timing),
                   !.isDraggingX = TRUE, !.isDraggingY = TRUE]
           grabbing == [i \in Children |-> [children[i] EXCEPT !.cursor = "grabbing"]]
           r == runScroll(s, [element EXCEPT !.cursor = "grabbing"])
       IN /\ children' = IF isAtAnEdge /\ applyRubberBandEffect
                         THEN rubberBandCallback(grabbing, x, y)
                         ELSE grabbing
          /\ internalState' = r.s
          /\ element' = r.el
    /\ UNCHANGED <<options, geometry, snapshot, handles, timers, timerSeq, listening>>

(***************************************************************************)
(* The setInterval callbacks of callbackMomentum, lines 175-196 and        *)
(* 198-219, run for the live interval `id`.  clearInterval is applied to   *)
(* the handle variable, whichever interval is executing.                   *)
(***************************************************************************)
clearTimer(live, handle) == {t \in live : t.id # handle}

hasReachedHorizontalEdges ==
    RLe(element.scrollLeft, RInt(0)) \/ RGe(element.scrollLeft, RInt(maxHorizontalScroll))

hasReachedVerticalEdges ==
    RLe(element.scrollTop, RInt(0)) \/ RGe(element.scrollTop, RInt(maxVerticalScroll))

keepMovingXInterval(id) ==
    /\ [id |-> id, cb |-> "keepMovingX"] \in timers
    /\ LET newScrollSpeedX == RMul(internalState.scrollSpeedX, decayRate)
           r == runScroll([internalState EXCEPT !.scrollSpeedX = newScrollSpeedX], element)
           stop == \/ RLt(RAbs(newScrollSpeedX), minimumSpeedToTriggerMomentum)
                   \/ internalState.isMouseDown
                   \/ hasReachedHorizontalEdges
       IN /\ element' = r.el
          /\ internalState' = IF stop THEN [r.s EXCEPT !.scrollSpeedX = RInt(0)] ELSE r.s
          /\ timers' = IF stop THEN clearTimer(timers, keepMovingX) ELSE timers
    /\ UNCHANGED <<options, geometry, snapshot, handles, children, timerSeq, listening>>

keepMovingYInterval(id) ==
    /\ [id |-> id, cb |-> "keepMovingY"] \in timers
    /\ LET newScrollSpeedY == RMul(internalState.scrollSpeedY, decayRate)
           r == runScroll([internalState EXCEPT !.scrollSpeedY = newScrollSpeedY], element)
           stop == \/ RLt(RAbs(newScrollSpeedY), minimumSpeedToTriggerMomentum)
                   \/ internalState.isMouseDown
                   \/ hasReachedVerticalEdges
       IN /\ element' = r.el
          /\ internalState' = IF stop THEN [r.s EXCEPT !.scrollSpeedY = RInt(0)] ELSE r.s
          /\ timers' = IF stop THEN clearTimer(timers, keepMovingY) ELSE timers
    /\ UNCHANGED <<options, geometry, snapshot, handles, children, timerSeq, listening>>

(***************************************************************************)
(* handleResize, lines 352-357.  The window is resized: the container's    *)
(* extents become w and h, the platform keeps the scroll offsets within    *)
(* the new range, and the listener, when registered, refreshes the cached  *)
(* maxima.                                                                 *)
(***************************************************************************)
handleResizeWidthOnly(w, h) ==
    /\ element' = [element EXCEPT !.extentX = w, !.extentY = h,
                                  !.scrollLeft = SetScroll(element.scrollLeft, w),
                                  !.scrollTop = SetScroll(element.scrollTop, h)]
    /\ IF listening
       THEN /\ maxHorizontalScroll' = w
            /\ maxVerticalScroll' = w
       ELSE UNCHANGED <<maxHorizontalScroll, maxVerticalScroll>>
    /\ UNCHANGED <<options, internalState, isScrollableAlongX, isScrollableAlongY,
                   snapshot, handles, children, timers, timerSeq, listening>>

handleResize(w, h) ==
    /\ element' = [element EXCEPT !.extentX = w, !.extentY = h,
                                  !.scrollLeft = SetScroll(element.scrollLeft, w),
                                  !.scrollTop = SetScroll(element.scrollTop, h)]
    /\ IF listening
       THEN /\ maxHorizontalScroll' = w
            /\ maxVerticalScroll' = h
       ELSE UNCHANGED <<maxHorizontalScroll, maxVerticalScroll>>
    /\ UNCHANGED <<options, internalState, isScrollableAlongX, isScrollableAlongY,
                   snapshot, handles, children, timers, timerSeq, listening>>

(***************************************************************************)
(* The page restyles the container: the computed overflow of the two axes  *)
(* becomes ox and oy (a stylesheet or a media query).  The hook reads the  *)
(* computed overflow at lines 55-58 only; no handler runs here.            *)
(***************************************************************************)
setOverflow(ox, oy) ==
    /\ element' = [element EXCEPT !.overflowX = ox, !.overflowY = oy]
    /\ UNCHANGED <<options, internalState, geometry, snapshot, handles, children,
                   timers, timerSeq, listening>>

(***************************************************************************)
(* The cleanup of useEffect, lines 365-373: the teardown of the mounted    *)
(* effect, when isMounted becomes false or the component unmounts.         *)
(***************************************************************************)
cleanup ==
    /\ listening
    /\ listening' = FALSE
    /\ isMounted' = FALSE
    /\ timers' = clearTimer(clearTimer(clearTimer(timers, keepMovingX), keepMovingY),
                            rubberBandAnimationTimer)
    /\ UNCHANGED <<applyRubberBandEffect, activeMouseButton, internalState, geometry,
                   snapshot, handles, element, children, timerSeq>>

(***************************************************************************)
(* Specifications.  They share the actions and differ in the options, in   *)
(* the pointer positions and in the events of the environment.  A          *)
(* behaviour has at most `starts` confirmed releases, which bounds the     *)
(* timer ids.                                                              *)
(*   Spec            default options (no rubber-band effect, left button), *)
(*                   the pointer on the horizontal or the vertical axis    *)
(*                   of the grid.                                          *)
(*   SpecTeardown    Spec with the pointer on the horizontal axis, and the *)
(*                   teardown of the effect.                               *)
(*   SpecRubberBand  the rubber-band effect, the pointer on the horizontal *)
(*                   axis, window resizes.                                 *)
(*   SpecButtons     each of the three trigger buttons.                    *)
(*   SpecSnapBack    the rubber-band effect, the pointer on the horizontal *)
(*                   axis, and the teardown of the effect.                 *)
(*   SpecOverflow    a container whose overflow is "scroll" or "auto" per  *)
(*                   axis and changes, window resizes.                     *)
(***************************************************************************)
Points == {p \in Coords \X Coords : p[1] = 0 \/ p[2] = 0}

PointsX == {p \in Points : p[2] = 0}

TimerIds == 1 .. (3 * MaxMomentumStarts)

Pointer(points, starts) ==
    \/ \E b \in ButtonsCodes, p \in points : onMouseDown(b, p[1], p[2])
    \/ \E p \in points : onMouseMove(p[1], p[2])
    \/ \E p \in points : onMouseUp(p[1], p[2]) /\ timerSeq' <= starts * TimersPerMomentum

Intervals ==
    \/ \E id \in TimerIds : keepMovingXInterval(id)
    \/ \E id \in TimerIds : keepMovingYInterval(id)

Init == InitWith({FALSE}, {"Left"}, {"scroll"}, {MaxExtent})

Next ==
    \/ Pointer(Points, MaxMomentumStarts - 1)
    \/ Intervals

Spec == Init /\ [][Next]_vars

NextTeardown ==
    \/ Pointer(PointsX, MaxMomentumStarts)
    \/ Intervals
    \/ cleanup

SpecTeardown == Init /\ [][NextTeardown]_vars

InitRubberBand == InitWith({TRUE}, {"Left"}, {"scroll"}, {MaxExtent})

NextRubberBand ==
    \/ Pointer(PointsX, MaxMomentumStarts - 1)
    \/ Intervals
    \/ \E id \in TimerIds : recoverChildStyle(id)
    \/ \E w \in Extents, h \in Extents : handleResize(w, h)

SpecRubberBand == InitRubberBand /\ [][NextRubberBand]_vars

InitButtons == InitWith({FALSE}, {"Left", "Middle", "Right"}, {"scroll"}, {MaxExtent})

NextButtons ==
    \/ Pointer(PointsX, MaxMomentumStarts - 1)
    \/ Intervals

SpecButtons == InitButtons /\ [][NextButtons]_vars

NextSnapBack ==
    \/ Pointer(PointsX, MaxMomentumStarts)
    \/ Intervals
    \/ \E id \in TimerIds : recoverChildStyle(id)
    \/ cleanup

SpecSnapBack == InitRubberBand /\ [][NextSnapBack]_vars

Overflows == {"scroll", "auto"}

InitOverflow == InitWith({FALSE}, {"Left"}, Overflows, {MaxExtent})

NextOverflow ==
    \/ Pointer(PointsX, MaxMomentumStarts - 1)
    \/ Intervals
    \/ \E w \in Extents, h \in Extents : handleResize(w, h)
    \/ \E ox \in Overflows, oy \in Overflows : setOverflow(ox, oy)

SpecOverflow == InitOverflow /\ [][NextOverflow]_vars

(***************************************************************************)
(* Properties.                                                             *)
(***************************************************************************)
LiveIntervals(cb) == {t \in timers : t.cb = cb}

Displaced(x, y) ==
    \/ Abs(internalState.initialMouseX - x) > safeDisplacement
    \/ Abs(internalState.initialMouseY - y) > safeDisplacement

\* C1: a pointer-up whose displacement from the press position is at most
\* safeDisplacement on both axes starts no timer and leaves no child with a
\* click-suppressor, whatever happened before.
C1_SmallReleasePassesClick ==
    [][\A p \in Points :
          (onMouseUp(p[1], p[2]) /\ ~Displaced(p[1], p[2]))
          => /\ timers' = timers
             /\ timerSeq' = timerSeq
             /\ \A i \in Children : ~children'[i].preventClick]_vars

\* An unconfirmed release after a move (the drag flags survive it), later
\* than a confirmed drag that had attached the suppressors.
C1_Witness ==
    /\ ~internalState.isMouseDown
    /\ internalState.isDraggingX
    /\ timerSeq > 0
    /\ element.cursor = "default"
    /\ \A i \in Children : ~children[i].preventClick

\* C2: a pointer-up while isDraggingX or isDraggingY is true, displaced by
\* more than safeDisplacement on an axis, attaches the click-suppressor to
\* every child and starts a new interval for every axis whose scrollSpeed is
\* not zero.
C2_ConfirmedReleaseStartsMomentum ==
    [][\A p \in Points :
          (/\ onMouseUp(p[1], p[2])
           /\ internalState.isDraggingX \/ internalState.isDraggingY
           /\ Displaced(p[1], p[2]))
          => /\ \A i \in Children : children'[i].preventClick
             /\ internalState.scrollSpeedX # RInt(0)
                  => \E t \in LiveIntervals("keepMovingX")' : t \notin timers
             /\ internalState.scrollSpeedY # RInt(0)
                  => \E t \in LiveIntervals("keepMovingY")' : t \notin timers]_vars

\* Just after a confirmed release with speed on both axes.
C2_Witness ==
    /\ ~internalState.isMouseDown
    /\ ~internalState.isDraggingX
    /\ internalState.scrollSpeedX # RInt(0)
    /\ internalState.scrollSpeedY # RInt(0)
    /\ [id |-> keepMovingX, cb |-> "keepMovingX"] \in timers
    /\ [id |-> keepMovingY, cb |-> "keepMovingY"] \in timers
    /\ \A i \in Children : children[i].preventClick

\* C4: after every pointer-up the cursor of the container and of every child
\* is the one it had at mount, confirmed drag or not.
C4_CursorRestoredOnRelease ==
    [][\A p \in Points :
          onMouseUp(p[1], p[2])
          => /\ element'.cursor = "default"
             /\ \A i \in Children : children'[i].cursor = InitialChild(i).cursor]_vars

\* A release after a move had set the grabbing cursor: unconfirmed (the drag
\* flags survive).
C4_Witness ==
    /\ ~internalState.isMouseDown
    /\ internalState.isDraggingX
    /\ internalState.isDraggingY
    /\ element.cursor = "default"
    /\ \A i \in Children : children[i].cursor = InitialChild(i).cursor

\* C3: once an interaction with the rubber-band effect is over (pointer up,
\* no snap-back timeout pending), every child's transform and transition are
\* the values captured at mount.
C3_RubberBandRoundTrip ==
    (applyRubberBandEffect /\ ~internalState.isMouseDown
       /\ LiveIntervals("recoverChildStyle") = {})
    => \A i \in Children :
         /\ CaptureTransform(children[i].transform) = transformStyleOfChildElements[i]
         /\ CaptureTransition(children[i].transition) = transitionStyleOfChildElements[i]

\* C5: after the teardown of the effect no interval timer is live, so no
\* callback runs and nothing writes the scroll offsets.
C5_TeardownCancelsIntervals ==
    ~listening => LiveIntervals("keepMovingX") \cup LiveIntervals("keepMovingY") = {}

\* C6: a tick that meets no stopping condition leaves the speed multiplied by
\* decayRate, and the tick at which the decayed speed falls below the
\* minimum stops the loop: the interval that ran it is cancelled and the
\* speed is 0.
C6_DecayStopsTheLoop ==
    [][\A id \in TimerIds :
          keepMovingXInterval(id)
          => LET decayed == RMul(internalState.scrollSpeedX, decayRate)
             IN IF RLt(RAbs(decayed), minimumSpeedToTriggerMomentum)
                THEN /\ internalState'.scrollSpeedX = RInt(0)
                     /\ [id |-> id, cb |-> "keepMovingX"] \notin timers'
                ELSE internalState'.scrollSpeedX \in {decayed, RInt(0)}]_vars

Clamped(offset, extent) ==
    IF RLt(offset, RInt(0)) THEN RInt(0)
    ELSE IF RLt(RInt(extent), offset) THEN RInt(extent)
    ELSE offset

\* C7 as stated: every pointer-move sample advances the container's scroll
\* offset on each axis by exactly the pointer delta of the sample.
C7_MoveAdvancesOffsetByDelta ==
    [][\A p \in Points :
          onMouseMove(p[1], p[2])
          => /\ element'.scrollLeft =
                  RAdd(element.scrollLeft, RInt(internalState.lastMouseX - p[1]))
             /\ element'.scrollTop =
                  RAdd(element.scrollTop, RInt(internalState.lastMouseY - p[2]))]_vars

\* C7, amended: on every pointer-move sample the speed is the pointer delta
\* over the tick period, the value written to the scroll offset and recorded
\* as lastScrollX/Y is the offset before plus speed * timing, that is plus the
\* pointer delta, without clamping; the container's offset after the sample
\* is that value brought into [0, extent] by the platform.
C7_MoveWritesOffsetPlusDelta ==
    [][\A p \in Points :
          onMouseMove(p[1], p[2])
          => LET dx == internalState.lastMouseX - p[1]
                 dy == internalState.lastMouseY - p[2]
                 speedX == RDiv(RInt(dx), timing)
                 speedY == RDiv(RInt(dy), timing)
                 writtenX == RAdd(element.scrollLeft, RInt(dx))
                 writtenY == RAdd(element.scrollTop, RInt(dy))
             IN /\ internalState'.scrollSpeedX = speedX
                /\ internalState'.scrollSpeedY = speedY
                /\ writtenX = RAdd(element.scrollLeft, RMul(speedX, timing))
                /\ writtenY = RAdd(element.scrollTop, RMul(speedY, timing))
                /\ internalState'.lastScrollX = writtenX
                /\ internalState'.lastScrollY = writtenY
                /\ element'.scrollLeft = Clamped(writtenX, element.extentX)
                /\ element'.scrollTop = Clamped(writtenY, element.extentY)]_vars

\* During a drag, after a sample that moved the container on both axes.
C7_Witness ==
    /\ internalState.isMouseDown
    /\ element.cursor = "grabbing"
    /\ internalState.scrollSpeedX # RInt(0)
    /\ internalState.scrollSpeedY # RInt(0)
    /\ element.scrollLeft = internalState.lastScrollX
    /\ element.scrollLeft # RInt(0)
    /\ element.scrollTop # internalState.lastScrollY

ButtonsMask(button) ==
    IF button = "Left" THEN 1 ELSE IF button = "Right" THEN 2 ELSE 4

\* C8: a press activates only when the buttons mask is the one of the
\* configured trigger button (Left 1, Right 2, Middle 4); it then sets
\* isMouseDown and records the position as initial and last position, and
\* changes nothing else.  Any other press changes nothing at all.
C8_PressOnlyWithTriggerButton ==
    [][\A b \in ButtonsCodes, p \in Points :
          onMouseDown(b, p[1], p[2])
          => IF b = ButtonsMask(activeMouseButton)
             THEN /\ internalState' =
                       [internalState EXCEPT !.isMouseDown = TRUE,
                                             !.initialMouseX = p[1], !.initialMouseY = p[2],
                                             !.lastMouseX = p[1], !.lastMouseY = p[2]]
                  /\ UNCHANGED <<element, children, timers>>
             ELSE UNCHANGED vars]_vars

\* A first press with the middle button configured, away from the origin.
C8_Witness ==
    /\ activeMouseButton = "Middle"
    /\ internalState.isMouseDown
    /\ ~internalState.isDraggingX
    /\ internalState.initialMouseX = MaxCoord
    /\ internalState.lastMouseX = MaxCoord

AtEdgeOfContainer ==
    \/ isScrollableAlongX /\ RLe(element.scrollLeft, RInt(0))
    \/ isScrollableAlongX /\ RGe(element.scrollLeft, RInt(element.extentX))
    \/ isScrollableAlongY /\ RLe(element.scrollTop, RInt(0))
    \/ isScrollableAlongY /\ RGe(element.scrollTop, RInt(element.extentY))

C10_SpeedOnlyWhileDraggingOrDecaying ==
    ~internalState.isMouseDown
    => /\ LiveIntervals("keepMovingX") = {} => internalState.scrollSpeedX = RInt(0)
       /\ LiveIntervals("keepMovingY") = {} => internalState.scrollSpeedY = RInt(0)

\* C11: whenever the pointer is up and no momentum interval is live on either
\* axis, isDraggingX and isDraggingY are both false.
C11_DragFlagsOnlyWhileDraggingOrDecaying ==
    (/\ ~internalState.isMouseDown
     /\ LiveIntervals("keepMovingX") = {}
     /\ LiveIntervals("keepMovingY") = {})
    => ~internalState.isDraggingX /\ ~internalState.isDraggingY

\* C12: a tick of the X interval leaves scrollSpeedY, lastScrollY and the
\* vertical scroll offset unchanged, and a tick of the Y interval leaves
\* scrollSpeedX, lastScrollX and the horizontal scroll offset unchanged.
C12_TicksTouchDisjointAxes ==
    [][/\ \A id \in TimerIds :
            keepMovingXInterval(id)
            => /\ internalState'.scrollSpeedY = internalState.scrollSpeedY
               /\ internalState'.lastScrollY = internalState.lastScrollY
               /\ element'.scrollTop = element.scrollTop
       /\ \A id \in TimerIds :
            keepMovingYInterval(id)
            => /\ internalState'.scrollSpeedX = internalState.scrollSpeedX
               /\ internalState'.lastScrollX = internalState.lastScrollX
               /\ element'.scrollLeft = element.scrollLeft]_vars

\* C13: an accepted press while the momentum interval of an axis is running
\* stops that interval at its next tick, with the speed of the axis forced to
\* 0, whatever pointer events follow the press.  The interval named by the
\* handle was started by the latest confirmed release, which left the pointer
\* up and the drag flags false: when the pointer is down or a drag flag is
\* set, a press was accepted while that interval was running.
C13_PressStopsMomentumAtNextTick ==
    [][/\ \A id \in TimerIds :
            (/\ keepMovingXInterval(id)
             /\ id = keepMovingX
             /\ \/ internalState.isMouseDown
                \/ internalState.isDraggingX
                \/ internalState.isDraggingY)
            => /\ internalState'.scrollSpeedX = RInt(0)
               /\ [id |-> id, cb |-> "keepMovingX"] \notin timers'
       /\ \A id \in TimerIds :
            (/\ keepMovingYInterval(id)
             /\ id = keepMovingY
             /\ \/ internalState.isMouseDown
                \/ internalState.isDraggingX
                \/ internalState.isDraggingY)
            => /\ internalState'.scrollSpeedY = RInt(0)
               /\ [id |-> id, cb |-> "keepMovingY"] \notin timers']_vars

isAtEdgeX ==
    /\ isScrollableAlongX
    /\ \/ RLe(element.scrollLeft, RInt(0))
       \/ RGe(element.scrollLeft, RInt(maxHorizontalScroll))

isAtEdgeY ==
    /\ isScrollableAlongY
    /\ \/ RLe(element.scrollTop, RInt(0))
       \/ RGe(element.scrollTop, RInt(maxVerticalScroll))

\* C14: a momentum tick of an axis stops the loop (the interval that ran it
\* is cancelled and performs no later tick) if and only if the decayed speed
\* is below 0.05, or the pointer is down, or the axis is at an edge in the
\* sense of isAtEdge (the axis is scrollable and its offset, read before the
\* scroll is applied, is <= 0 or >= maxScroll); when it stops the speed of
\* the axis is 0, otherwise it is the decayed speed.
C14_TickStopsExactlyOnStopConditions ==
    [][/\ \A id \in TimerIds :
            keepMovingXInterval(id)
            => LET newSpeed == RMul(internalState.scrollSpeedX, decayRate)
                   stops == \/ RLt(RAbs(newSpeed), minimumSpeedToTriggerMomentum)
                            \/ internalState.isMouseDown
                            \/ isAtEdgeX
               IN /\ stops <=> [id |-> id, cb |-> "keepMovingX"] \notin timers'
                  /\ internalState'.scrollSpeedX = IF stops THEN RInt(0) ELSE newSpeed
       /\ \A id \in TimerIds :
            keepMovingYInterval(id)
            => LET newSpeed == RMul(internalState.scrollSpeedY, decayRate)
                   stops == \/ RLt(RAbs(newSpeed), minimumSpeedToTriggerMomentum)
                            \/ internalState.isMouseDown
                            \/ isAtEdgeY
               IN /\ stops <=> [id |-> id, cb |-> "keepMovingY"] \notin timers'
                  /\ internalState'.scrollSpeedY = IF stops THEN RInt(0) ELSE newSpeed]_vars

\* C15: a pointer-move that writes a new rubber-band transform to a child
\* writes a non-zero displacement along an axis only if applyRubberBandEffect
\* is enabled, that axis is scrollable and the container is at a scroll
\* boundary of that axis; otherwise the displacement of the axis is 0.
C15_RubberBandOnlyOnTheAxisAtItsBoundary ==
    [][\A p \in Points :
          onMouseMove(p[1], p[2])
          => \A i \in Children :
               (/\ children'[i].transform # children[i].transform
                /\ children'[i].transform[1] = "translate3d")
               => /\ children'[i].transform[2] # ZeroDisplacement
                       => applyRubberBandEffect /\ isAtEdgeX
                  /\ children'[i].transform[3] # ZeroDisplacement
                       => applyRubberBandEffect /\ isAtEdgeY]_vars

\* C16: after the teardown of the effect no snap-back timeout is pending, so
\* nothing writes a child's transform or transition afterwards, whatever
\* confirmed releases came before.
C16_TeardownCancelsSnapBack ==
    ~listening => LiveIntervals("recoverChildStyle") = {}

\* C17: after every resize handled by the hook, isScrollableAlongX/Y say
\* whether the container's current overflow style is "scroll" on that axis,
\* and the cached maxima are the container's current extents.
C17_ResizeRecomputesGeometryInFull ==
    [][\A w \in Extents, h \in Extents :
          (handleResize(w, h) /\ listening)
          => /\ isScrollableAlongX' = (element'.overflowX = "scroll")
             /\ isScrollableAlongY' = (element'.overflowY = "scroll")
             /\ maxHorizontalScroll' = element'.extentX
             /\ maxVerticalScroll' = element'.extentY]_vars

\* C18: while isMounted is false no pointer-down, pointer-move, pointer-up or
\* resize changes the drag state, the scroll offsets, the cached geometry or
\* any style.
C18_IsMountedGatesAllEvents ==
    [][~isMounted
       => /\ \A b \in ButtonsCodes, p \in Points :
               onMouseDown(b, p[1], p[2]) => UNCHANGED <<internalState, element, children>>
          /\ \A p \in Points :
               onMouseMove(p[1], p[2]) => UNCHANGED <<internalState, element, children>>
          /\ \A p \in Points :
               onMouseUp(p[1], p[2]) => UNCHANGED <<internalState, element, children>>
          /\ \A w \in Extents, h \in Extents :
               handleResize(w, h) => UNCHANGED <<internalState, geometry, children>>]_vars

\* C19: at most one momentum interval is live per axis, and a tick that takes
\* the stop decision (decayed speed below the minimum, pointer down, or
\* offset at 0 or at the maximum) cancels the interval that is executing it.
C19_OneMomentumIntervalPerAxis ==
    /\ [](/\ Cardinality(LiveIntervals("keepMovingX")) <= 1
          /\ Cardinality(LiveIntervals("keepMovingY")) <= 1)
    /\ [][/\ \A id \in TimerIds :
               (/\ keepMovingXInterval(id)
                /\ \/ RLt(RAbs(RMul(internalState.scrollSpeedX, decayRate)),
                          minimumSpeedToTriggerMomentum)
                   \/ internalState.isMouseDown
                   \/ RLe(element.scrollLeft, RInt(0))
                   \/ RGe(element.scrollLeft, RInt(maxHorizontalScroll)))
               => [id |-> id, cb |-> "keepMovingX"] \notin timers'
          /\ \A id \in TimerIds :
               (/\ keepMovingYInterval(id)
                /\ \/ RLt(RAbs(RMul(internalState.scrollSpeedY, decayRate)),
                          minimumSpeedToTriggerMomentum)
                   \/ internalState.isMouseDown
                   \/ RLe(element.scrollTop, RInt(0))
                   \/ RGe(element.scrollTop, RInt(maxVerticalScroll)))
               => [id |-> id, cb |-> "keepMovingY"] \notin timers']_vars

\* C20: a pointer-up with the pointer already up (no press was accepted since
\* the previous pointer-up) starts no timer and leaves no child with a
\* click-suppressor.
C20_ReleaseWithoutPressIsInert ==
    [][\A p \in Points :
          (onMouseUp(p[1], p[2]) /\ ~internalState.isMouseDown)
          => /\ timers' = timers
             /\ timerSeq' = timerSeq
             /\ \A i \in Children : ~children'[i].preventClick]_vars

====
